---- MODULE Spec2Model ----
(***************************************************************************)
(* Model of ring_attention_pytorch/ring_attention.py.                      *)
(*                                                                         *)
(*   SpecInit   RingAttention.__init__ / RingTransformer.__init__          *)
(*   SpecShard  RingTransformer.forward on W ranks: the batch <-> sequence *)
(*              resharding (sharded_batch_to_sharded_seq and back)         *)
(*   Spec       RingAttention.forward on W ranks: auto-shard, projection,  *)
(*              default_attention or the ring, reassembly                  *)
(*   SpecFair   Spec with weak fairness on every rank's steps              *)
(*                                                                         *)
(* Python values are modelled by what they are: an Optional is <<>> (None) *)
(* or <<v>>; a tensor, a tuple and None are distinguished by a tag, so     *)
(* that calling a tensor method on a tuple raises as it does in Python.    *)
(***************************************************************************)
EXTENDS Integers, Sequences, FiniteSets, TLC

VARIABLES
    \* ---- construction (SpecInit)
    args,        \* keyword arguments of the constructor call
    obj,         \* the object under construction
    calls,       \* forward passes started on the constructed object
    \* ---- RingTransformer.forward (SpecShard)
    sW,          \* world size
    sCfg,        \* self.auto_shard_seq, self.ring_seq_size
    sIn,         \* per rank: the caller's token ids and mask
    sPc,         \* per rank: position in forward
    sX,          \* per rank: local x / logits
    sMask,       \* per rank: local mask
    sSizes,      \* per rank: batch_sizes returned by the all gather
    sSeqLen,     \* per rank: seq_len captured at entry
    sPost,       \* per rank: tensor contributed to the pending all gather
    sErr,        \* per rank: the exception that ended forward, "" if none
    \* ---- RingAttention.forward (Spec)
    W,           \* world size
    cfg,         \* the constructed module's fields
    inp,         \* the inputs of the call
    pc,          \* per rank: position in forward
    xs,          \* per rank: local x, the batch and sequence axes flattened
    masks,       \* per rank: local mask
    batch_sizes, \* per rank: batch_sizes returned by the all gather
    seqLen,      \* per rank: seq_len captured at entry
    gathers,     \* per rank: tensors contributed to the all gathers
    err,         \* per rank: the exception that ended forward, "" if none
    held,        \* per rank: K/V shard currently held
    t,           \* per rank: ring step counter
    acc,         \* per rank: running accumulator, per query position
    seen,        \* per rank: origins of the shards folded so far
    chan,        \* per rank: shard in flight to the successor
    posts,       \* per rank: number of exchanges posted
    idle,        \* per rank: steps at which every block pair was pruned
    out          \* per rank: output of the call

varsInit  == <<args, obj, calls>>
varsShard == <<sW, sCfg, sIn, sPc, sX, sMask, sSizes, sSeqLen, sPost, sErr>>
varsAttn  == <<W, cfg, inp, pc, xs, masks, batch_sizes, seqLen, gathers, err, held, t, acc,
               seen, chan, posts, idle, out>>
vars      == <<varsInit, varsShard, varsAttn>>

\* ---------------------------------------------------------------- bounds
MaxSeqSize == 4      \* ring_seq_size values tried by the constructor
MaxBucket  == 4      \* q_bucket_size / k_bucket_size values tried
MaxDepth   == 1      \* RingTransformer depth
MaxCalls   == 1      \* forward passes started per constructed object

\* ------------------------------------------------------ helper functions
None == <<>>
Some(v) == <<v>>

exists(v) == v # None

default(v, d) == IF exists(v) THEN v[1] ELSE d

divisible_by_swapped(num, den) == (den % num) = 0

divisible_by(num, den) == (num % den) = 0

\* ------------------------------------------------- construction (SpecInit)
Optional(S) == {None} \cup {Some(v) : v \in S}

InitArgs ==
    [cls            : {"RingAttention", "RingTransformer"},
     ring_seq_size  : 1 .. MaxSeqSize,
     q_bucket_size  : 1 .. MaxBucket,
     k_bucket_size  : 1 .. MaxBucket,
     ring_attn      : BOOLEAN,
     auto_shard_seq : Optional(BOOLEAN),
     depth          : 0 .. MaxDepth]

NewObj == [state |-> "new", ring_attn |-> FALSE, auto_shard_seq |-> FALSE,
           layers |-> 0]

\* RingAttention.__init__: the asserts in source order; the result is the
\* object's state and the fields assigned before the first failing assert.
RingAttentionInit(a) ==
    LET auto == default(a.auto_shard_seq, a.ring_attn) IN
    IF ~ divisible_by(a.ring_seq_size, a.q_bucket_size)
      THEN [NewObj EXCEPT !.state = "raised"]
    ELSE IF ~ divisible_by(a.ring_seq_size, a.k_bucket_size)
      THEN [NewObj EXCEPT !.state = "raised"]
    ELSE IF ~ (~ (~ a.ring_attn /\ auto))
      THEN [NewObj EXCEPT !.state = "raised", !.ring_attn = a.ring_attn,
                          !.auto_shard_seq = auto]
    ELSE [NewObj EXCEPT !.state = "built", !.ring_attn = a.ring_attn,
                        !.auto_shard_seq = auto]

\* RingTransformer.__init__: its own assert, then depth RingAttention
\* layers, each constructed with auto_shard_seq = False.
RingTransformerInit(a) ==
    LET auto  == default(a.auto_shard_seq, a.ring_attn)
        layer == RingAttentionInit([a EXCEPT !.auto_shard_seq = Some(FALSE)])
    IN
    IF ~ (~ (~ a.ring_attn /\ auto))
      THEN [NewObj EXCEPT !.state = "raised", !.ring_attn = a.ring_attn,
                          !.auto_shard_seq = auto]
    ELSE IF a.depth > 0 /\ layer.state = "raised"
      THEN [NewObj EXCEPT !.state = "raised", !.ring_attn = a.ring_attn,
                          !.auto_shard_seq = auto]
    ELSE [NewObj EXCEPT !.state = "built", !.ring_attn = a.ring_attn,
                        !.auto_shard_seq = auto, !.layers = a.depth]

ConstructAttention ==
    /\ obj.state = "new"
    /\ args.cls = "RingAttention"
    /\ obj' = RingAttentionInit(args)
    /\ UNCHANGED <<args, calls>>

ConstructTransformer ==
    /\ obj.state = "new"
    /\ args.cls = "RingTransformer"
    /\ obj' = RingTransformerInit(args)
    /\ UNCHANGED <<args, calls>>

\* forward is a method: it can only be called on an object whose
\* constructor returned.
CallForward ==
    /\ obj.state = "built"
    /\ calls < MaxCalls
    /\ calls' = calls + 1
    /\ UNCHANGED <<args, obj>>

\* --------------------------------------------------------- SpecInit
InitConstruct ==
    /\ args \in InitArgs
    /\ obj = NewObj
    /\ calls = 0

\* ------------------------------------- tensors, tuples and None in Python
MaxW == 3            \* world sizes 1 .. MaxW
MaxS == 2            \* ring_seq_size values 1 .. MaxS in forward
MaxL == 6            \* sequence lengths 1 .. MaxL of the token ids
MaxB == 2            \* per-rank batch extents 1 .. MaxB

PyNone == [tag |-> "none"]
Tensor(rows) == [tag |-> "tensor", rows |-> rows]
Tuple(items) == [tag |-> "tuple", items |-> items]

pyexists(v) == v.tag # "none"

\* x.shape[-1] of a two-dimensional tensor
LastDim(x) == IF Len(x.rows) = 0 THEN 0 ELSE Len(x.rows[1])

Repeat(v, n) == [i \in 1 .. n |-> v]

\* F.pad(x, (0, pad_length), value = pad_value)
FPad(x, pad_length, pad_value) ==
    Tensor([i \in 1 .. Len(x.rows) |-> x.rows[i] \o Repeat(pad_value, pad_length)])

\* the pad_length computed by pad_to_multiple
PadLength(seq_len, length) ==
    LET remainder == seq_len % length IN
    IF remainder = 0 THEN 0 ELSE length - remainder

\* pad_to_multiple returns the pair (tensor, pad_length) on both branches
pad_to_multiple(x, length, pad_value) ==
    LET pad_length == PadLength(LastDim(x), length) IN
    IF pad_length = 0 THEN Tuple(<<x, 0>>)
    ELSE Tuple(<<FPad(x, pad_length, pad_value), pad_length>>)

\* torch.ones_like(x).bool()
OnesLikeBool(x) ==
    Tensor([i \in 1 .. Len(x.rows) |-> Repeat(TRUE, LastDim(x))])

\* x.split(seq_size, dim = -1): the chunks, the last one possibly shorter
NumChunks(len, seq_size) == (len + seq_size - 1) \div seq_size

SplitLast(x, seq_size) ==
    LET len == LastDim(x) IN
    [c \in 1 .. NumChunks(len, seq_size) |->
        LET lo == (c - 1) * seq_size + 1
            hi == IF c * seq_size < len THEN c * seq_size ELSE len
        IN Tensor([i \in 1 .. Len(x.rows) |-> SubSeq(x.rows[i], lo, hi)])]

RECURSIVE SumTo(_, _)
SumTo(sizes, k) == IF k = 0 THEN 0 ELSE sizes[k] + SumTo(sizes, k - 1)

\* x.split(sizes, dim = 0): consecutive groups of rows
SplitRows(x, sizes) ==
    [c \in 1 .. Len(sizes) |->
        Tensor(SubSeq(x.rows, SumTo(sizes, c - 1) + 1, SumTo(sizes, c)))]

\* the assert on the number of chunks
ChunkCountOKAtLeast(chunks, world) == Len(chunks) >= world

ChunkCountOK(chunks, world) == Len(chunks) = world

\* AllGather(dim = 0) over the tensors posted by ranks 0 .. world-1:
\* the rows of all ranks in rank order, and each rank's batch extent
RECURSIVE CatRows(_, _)
CatRows(posted, n) ==
    IF n = 0 THEN <<>> ELSE CatRows(posted, n - 1) \o posted[n - 1].rows

AllGatherBatch(posted, world) ==
    Tuple(<<Tensor(CatRows(posted, world)),
            [k \in 1 .. world |-> Len(posted[k - 1].rows)]>>)

\* AllGather(dim = -2) over the logits shards: every row is the
\* concatenation of the ranks' rows in rank order
RECURSIVE CatCols(_, _, _)
CatCols(posted, n, i) ==
    IF n = 0 THEN <<>> ELSE CatCols(posted, n - 1, i) \o posted[n - 1].rows[i]

AllGatherSeq(posted, world) ==
    Tuple(<<Tensor([i \in 1 .. Len(posted[0].rows) |-> CatCols(posted, world, i)]),
            [k \in 1 .. world |-> LastDim(posted[k - 1])]>>)

\* split_by_rank(x): the rank's piece and the sizes of the pieces
split_by_rank(pieces, rank) ==
    Tuple(<<pieces[rank + 1], [k \in 1 .. Len(pieces) |-> Len(pieces[k].rows)]>>)

is_distributed(world) == world > 1

\* ------------------------------------ RingTransformer.forward (SpecShard)
SRanks == 0 .. sW - 1

\* a token id is modelled by where it came from: <<rank, batch item, position>>;
\* the value F.pad appends to x (pad_value = 0) comes from no rank
PadToken == <<-1, 0, 0>>

TokenIds(r, b, len) == Tensor([i \in 1 .. b |-> [p \in 1 .. len |-> <<r, i, p>>]])

MaskKinds == {"none", "ones", "tail"}

MaskOf(kind, b, len) ==
    IF kind = "none" THEN PyNone
    ELSE Tensor([i \in 1 .. b |->
                   [p \in 1 .. len |-> IF kind = "tail" THEN p < len ELSE TRUE]])

\* token_emb, the layers and to_logits, as far as the resharding is
\* concerned: one logits vector per token position, in place
Logits(x) ==
    Tensor([i \in 1 .. Len(x.rows) |->
              [p \in 1 .. Len(x.rows[i]) |-> [logits_of |-> x.rows[i][p]]]])

\* logits[:, :seq_len]
Truncate(x, seq_len) ==
    Tensor([i \in 1 .. Len(x.rows) |->
              SubSeq(x.rows[i], 1, IF seq_len < Len(x.rows[i]) THEN seq_len
                                   ELSE Len(x.rows[i]))])

NoPost == [x |-> PyNone, mask |-> PyNone, logits |-> PyNone]

\* the mask after the padding block: the result of pad_to_multiple is
\* assigned to mask as it is returned
MaskAfterPad(orig_x, m, seq_size, pad_length) ==
    IF pad_length > 0
      THEN pad_to_multiple(IF ~ pyexists(m) THEN OnesLikeBool(orig_x) ELSE m,
                           seq_size, FALSE)
      ELSE m

\* from x.split to the return of sharded_batch_to_sharded_seq
SplitStage(x, m, seq_size, world, rank) ==
    LET chunks == SplitLast(x, seq_size) IN
    IF ~ ChunkCountOK(chunks, world)
      THEN [err |-> "AssertionError: len(x) == get_world_size()", x |-> x, mask |-> m]
    ELSE IF rank >= Len(chunks)
      THEN [err |-> "IndexError: split_by_rank", x |-> x, mask |-> m]
    ELSE
      LET mine == split_by_rank(chunks, rank).items[1] IN
      IF ~ pyexists(m) THEN [err |-> "", x |-> mine, mask |-> m]
      ELSE IF m.tag # "tensor"
        THEN [err |-> "AttributeError: tuple has no split", x |-> mine, mask |-> m]
      ELSE [err |-> "", x |-> mine,
            mask |-> split_by_rank(SplitLast(m, seq_size), rank)]

\* forward up to the first all gather: seq_len, the padding block, and the
\* contribution of the padded x to AllGather(dim = 0)
ShardBegin(r) ==
    /\ sPc[r] = "start"
    /\ sCfg.auto_shard_seq /\ is_distributed(sW)
    /\ LET x      == sIn[r].x
           padded == pad_to_multiple(x, sCfg.ring_seq_size, PadToken)
           m      == MaskAfterPad(x, sIn[r].mask, sCfg.ring_seq_size, padded.items[2])
       IN /\ sSeqLen' = [sSeqLen EXCEPT ![r] = LastDim(x)]
          /\ sX' = [sX EXCEPT ![r] = padded.items[1]]
          /\ sMask' = [sMask EXCEPT ![r] = m]
          /\ sPost' = [sPost EXCEPT ![r].x = padded.items[1]]
    /\ sPc' = [sPc EXCEPT ![r] = "gather_x"]
    /\ UNCHANGED <<sW, sCfg, sIn, sSizes, sErr>>

\* the all gather of x completes on rank r; with a mask the rank goes on
\* to the all gather of the mask, without one to the split
GatherX(r) ==
    /\ sPc[r] = "gather_x"
    /\ \A q \in SRanks : pyexists(sPost[q].x)
    /\ LET g == AllGatherBatch([q \in SRanks |-> sPost[q].x], sW)
           x == g.items[1]
       IN /\ sSizes' = [sSizes EXCEPT ![r] = g.items[2]]
          /\ IF pyexists(sMask[r])
               THEN IF sMask[r].tag # "tensor"
                      THEN /\ sErr' = [sErr EXCEPT ![r] = "AttributeError: all_gather of a tuple"]
                           /\ sPc' = [sPc EXCEPT ![r] = "failed"]
                           /\ sX' = [sX EXCEPT ![r] = x]
                           /\ UNCHANGED <<sMask, sPost>>
                      ELSE /\ sPost' = [sPost EXCEPT ![r].mask = sMask[r]]
                           /\ sPc' = [sPc EXCEPT ![r] = "gather_mask"]
                           /\ sX' = [sX EXCEPT ![r] = x]
                           /\ UNCHANGED <<sMask, sErr>>
               ELSE LET res == SplitStage(x, sMask[r], sCfg.ring_seq_size, sW, r) IN
                    /\ sErr' = [sErr EXCEPT ![r] = res.err]
                    /\ sPc' = [sPc EXCEPT ![r] = IF res.err = "" THEN "layers" ELSE "failed"]
                    /\ sX' = [sX EXCEPT ![r] = res.x]
                    /\ sMask' = [sMask EXCEPT ![r] = res.mask]
                    /\ UNCHANGED sPost
    /\ UNCHANGED <<sW, sCfg, sIn, sSeqLen>>

\* the all gather of the mask completes on rank r: mask is now the pair
\* (gathered, sizes) the all gather returns, and the split follows
GatherMask(r) ==
    /\ sPc[r] = "gather_mask"
    /\ \A q \in SRanks : pyexists(sPost[q].mask)
    /\ LET g   == AllGatherBatch([q \in SRanks |-> sPost[q].mask], sW)
           res == SplitStage(sX[r], g, sCfg.ring_seq_size, sW, r)
       IN /\ sErr' = [sErr EXCEPT ![r] = res.err]
          /\ sPc' = [sPc EXCEPT ![r] = IF res.err = "" THEN "layers" ELSE "failed"]
          /\ sX' = [sX EXCEPT ![r] = res.x]
          /\ sMask' = [sMask EXCEPT ![r] = res.mask]
    /\ UNCHANGED <<sW, sCfg, sIn, sSizes, sSeqLen, sPost>>

\* the embedding, the layers and to_logits on the rank's sequence shard,
\* then the contribution of the logits to AllGather(dim = -2)
Layers(r) ==
    /\ sPc[r] = "layers"
    /\ sX' = [sX EXCEPT ![r] = Logits(sX[r])]
    /\ sPost' = [sPost EXCEPT ![r].logits = Logits(sX[r])]
    /\ sPc' = [sPc EXCEPT ![r] = "gather_out"]
    /\ UNCHANGED <<sW, sCfg, sIn, sMask, sSizes, sSeqLen, sErr>>

\* sharded_seq_to_sharded_batch and the truncation to seq_len
sharded_seq_to_sharded_batch(posted, sizes, world, rank) ==
    LET logits == AllGatherSeq(posted, world).items[1]
        pieces == SplitRows(logits, sizes)
    IN split_by_rank(pieces, rank)

Unshard(r) ==
    /\ sPc[r] = "gather_out"
    /\ \A q \in SRanks : pyexists(sPost[q].logits)
    /\ LET res == sharded_seq_to_sharded_batch([q \in SRanks |-> sPost[q].logits],
                                               sSizes[r], sW, r)
       IN sX' = [sX EXCEPT ![r] = Truncate(res.items[1], sSeqLen[r])]
    /\ sPc' = [sPc EXCEPT ![r] = "done"]
    /\ UNCHANGED <<sW, sCfg, sIn, sMask, sSizes, sSeqLen, sPost, sErr>>

\* forward without resharding: one worker, or auto_shard_seq off
LocalForward(r) ==
    /\ sPc[r] = "start"
    /\ ~ (sCfg.auto_shard_seq /\ is_distributed(sW))
    /\ sSeqLen' = [sSeqLen EXCEPT ![r] = LastDim(sIn[r].x)]
    /\ sX' = [sX EXCEPT ![r] = Logits(sIn[r].x)]
    /\ sPc' = [sPc EXCEPT ![r] = "done"]
    /\ UNCHANGED <<sW, sCfg, sIn, sMask, sSizes, sPost, sErr>>

InitShard ==
    /\ sW \in 1 .. MaxW
    /\ sCfg \in [auto_shard_seq : BOOLEAN, ring_seq_size : 1 .. MaxS]
    /\ \E len \in 1 .. MaxL, kind \in MaskKinds, b \in [0 .. MaxW - 1 -> 1 .. MaxB] :
          sIn = [r \in SRanks |-> [x |-> TokenIds(r, b[r], len),
                                   mask |-> MaskOf(kind, b[r], len)]]
    /\ sPc = [r \in SRanks |-> "start"]
    /\ sX = [r \in SRanks |-> sIn[r].x]
    /\ sMask = [r \in SRanks |-> sIn[r].mask]
    /\ sSizes = [r \in SRanks |-> <<>>]
    /\ sSeqLen = [r \in SRanks |-> 0]
    /\ sPost = [r \in SRanks |-> NoPost]
    /\ sErr = [r \in SRanks |-> ""]

IdleShard ==
    /\ sW = 0 /\ sCfg = <<>> /\ sIn = <<>> /\ sPc = <<>> /\ sX = <<>>
    /\ sMask = <<>> /\ sSizes = <<>> /\ sSeqLen = <<>> /\ sPost = <<>>
    /\ sErr = <<>>

IdleInit == args = <<>> /\ obj = <<>> /\ calls = 0

IdleAttn ==
    /\ W = 0 /\ cfg = <<>> /\ inp = <<>> /\ pc = <<>> /\ xs = <<>>
    /\ masks = <<>> /\ batch_sizes = <<>> /\ seqLen = <<>> /\ gathers = <<>>
    /\ err = <<>> /\ held = <<>> /\ t = <<>> /\ acc = <<>>
    /\ seen = <<>> /\ chan = <<>> /\ posts = <<>>
    /\ idle = <<>> /\ out = <<>>

NextInit ==
    \/ ConstructAttention /\ UNCHANGED <<varsShard, varsAttn>>
    \/ ConstructTransformer /\ UNCHANGED <<varsShard, varsAttn>>
    \/ CallForward /\ UNCHANGED <<varsShard, varsAttn>>

InitCtor == InitConstruct /\ IdleShard /\ IdleAttn

SpecInit == InitCtor /\ [][NextInit]_vars

NextShard ==
    \/ \E r \in SRanks : ShardBegin(r) /\ UNCHANGED <<varsInit, varsAttn>>
    \/ \E r \in SRanks : GatherX(r) /\ UNCHANGED <<varsInit, varsAttn>>
    \/ \E r \in SRanks : GatherMask(r) /\ UNCHANGED <<varsInit, varsAttn>>
    \/ \E r \in SRanks : Layers(r) /\ UNCHANGED <<varsInit, varsAttn>>
    \/ \E r \in SRanks : Unshard(r) /\ UNCHANGED <<varsInit, varsAttn>>
    \/ \E r \in SRanks : LocalForward(r) /\ UNCHANGED <<varsInit, varsAttn>>

InitFwd == IdleInit /\ InitShard /\ IdleAttn

SpecShard == InitFwd /\ [][NextShard]_vars

\* ------------------------------------------- properties of the resharding
Resharding == sCfg.auto_shard_seq /\ is_distributed(sW)

InLen == LastDim(sIn[0].x)

PaddedLen == InLen + PadLength(InLen, sCfg.ring_seq_size)

ChunksMatchWorld == NumChunks(PaddedLen, sCfg.ring_seq_size) = sW

Returned(r) == sPc[r] \in {"layers", "gather_out", "done"}

Left(r) == Returned(r) \/ sPc[r] = "failed"

\* the mask the spec describes: the caller's mask (all True without one),
\* False at the appended positions, gathered over the batch
PaddedMaskOf(r) ==
    FPad(IF pyexists(sIn[r].mask) THEN sIn[r].mask ELSE OnesLikeBool(sIn[r].x),
         PadLength(InLen, sCfg.ring_seq_size), FALSE)

ExpectedMaskShard(r) ==
    SplitLast(AllGatherBatch([q \in SRanks |-> PaddedMaskOf(q)], sW).items[1],
              sCfg.ring_seq_size)[r + 1]

\* C1 (as claimed): whenever the padded length gives W chunks and the caller
\* passes no mask, forward with resharding ends on every rank with exactly
\* the logits of the rows and positions that rank supplied, in order,
\* whether or not the length is a multiple of the shard size.
C1_RoundTripAnyLength ==
    \A r \in SRanks :
        (Resharding /\ ChunksMatchWorld /\ ~ pyexists(sIn[r].mask)
           /\ sPc[r] \in {"done", "failed"})
        => (sPc[r] = "done" /\ sX[r] = Logits(sIn[r].x))

\* C5 (as claimed): when padding was needed and the padded length gives W
\* chunks, every rank leaves sharded_batch_to_sharded_seq holding a boolean
\* mask shard equal to its chunk of the padded mask: the caller's validity
\* (all True without a mask) at original positions, False at appended ones.
C5_PaddedMaskIsFalse ==
    \A r \in SRanks :
        (Resharding /\ ChunksMatchWorld /\ PadLength(InLen, sCfg.ring_seq_size) > 0
           /\ Left(r))
        => (Returned(r) /\ sMask[r].tag = "tensor" /\ sMask[r] = ExpectedMaskShard(r))

\* C8: when the padded sequence does not split into exactly W chunks, no
\* rank ever returns from sharded_batch_to_sharded_seq: every rank that has
\* left the call has raised, so no rank is in the layers (the ring) while
\* another has aborted.
C8_ChunkMismatchFailsEverywhere ==
    (Resharding /\ ~ ChunksMatchWorld)
    => /\ \A r \in SRanks : ~ Returned(r)
       /\ \A r \in SRanks : Left(r) => (sPc[r] = "failed" /\ sErr[r] # "")

C8_Witness ==
    /\ Resharding /\ ~ ChunksMatchWorld
    /\ \A r \in SRanks : sPc[r] = "failed"
    /\ \E r \in SRanks : sErr[r] = "AssertionError: len(x) == get_world_size()"

\* ------------------------------------------ RingAttention.forward (Spec)
MaxN   == 4          \* positions in the whole sequence, W * n
MaxDim == 2          \* feature sizes 1 .. MaxDim

Ranks == 0 .. W - 1

AutoShard == cfg.auto_shard_seq /\ is_distributed(W)

RingOn == cfg.ring_attn /\ is_distributed(W)

\* The key/value at a position is modelled by the position it belongs to
\* and its value in two runs of the same call: <<position, run 1, run 2>>.
\* The runs differ exactly at the positions in inp.pert.  The output at a
\* query position is modelled by the set of keys/values that get a nonzero
\* softmax weight: the output is a function of exactly those.
Token(g) == <<g, 0, IF g \in inp.pert THEN 1 ELSE 0>>

Run1(o) == {<<c[1], c[2]>> : c \in o}
Run2(o) == {<<c[1], c[3]>> : c \in o}

\* ---- default_attention
\* torch.ones((i, j)).triu(j - i + 2): one diagonal too far
CausalMaskOffByOne(a, b, i, j) == b - a >= j - i + 2

\* causal_mask = torch.ones((i, j)).triu(j - i + 1), at row a, column b
CausalMask(a, b, i, j) == b - a >= j - i + 1

\* the entries of sim that keep their score (TRUE) or are replaced by
\* mask_value (FALSE): the causal branch, else the key-mask branch
SimKept(i, j, m, causal) ==
    [a \in 1 .. i |-> [b \in 1 .. j |->
        IF causal THEN ~ CausalMask(a, b, i, j)
        ELSE IF pyexists(m) THEN m.rows[1][b]
        ELSE TRUE]]

\* softmax over a row: an entry at mask_value = -finfo.max gets weight
\* exp(mask_value - max) = 0 when some entry of the row keeps its score;
\* a row entirely at mask_value is uniform
SoftmaxNonzero(row) ==
    IF \E b \in DOMAIN row : row[b] THEN row ELSE [b \in DOMAIN row |-> TRUE]

default_attention(kv, m, causal) ==
    LET n    == Len(kv)
        kept == SimKept(n, n, m, causal)
    IN [a \in 1 .. n |-> {kv[b] : b \in {c \in 1 .. n : SoftmaxNonzero(kept[a])[c]}}]

\* ---- to_qkv = RMSNorm(dim) then Linear(dim, 3 * dim_inner)
\* broadcasting of the last axis against gamma; 0 stands for the error
Broadcast(a, b) == IF a = b THEN a ELSE IF a = 1 THEN b ELSE IF b = 1 THEN a ELSE 0

ToQkvOK(last, dim) == Broadcast(last, dim) # 0 /\ Broadcast(last, dim) = dim

\* ---- ring_flash_attn
NoShard == [origin |-> -1, kv |-> <<>>, valid |-> <<>>]

\* the K/V shard (and key mask) a rank derives from its local sequence
OwnShard(r) ==
    [origin |-> r,
     kv     |-> [b \in 1 .. inp.n |-> Token(r * inp.n + b)],
     valid  |-> [b \in 1 .. inp.n |->
                   IF pyexists(masks[r]) /\ masks[r].tag = "tensor"
                     THEN masks[r].rows[1][b] ELSE TRUE]]

\* with the ring a shard's positions are global, without it each rank
\* takes its own shard for the whole sequence
QPos(r, a) == IF RingOn THEN r * inp.n + a ELSE a
KPos(shard, b) == IF RingOn THEN shard.origin * inp.n + b ELSE b

BlockOf(a, bucket) == (a + bucket - 1) \div bucket
BlockLast(c, bucket, n) == IF c * bucket < n THEN c * bucket ELSE n
BlockFirst(c, bucket) == (c - 1) * bucket + 1
NumBlocks(n, bucket) == NumChunks(n, bucket)

\* causal pruning: the key block lies strictly ahead of the query block
Pruned(r, shard, qc, kc) ==
    /\ cfg.causal
    /\ KPos(shard, BlockFirst(kc, cfg.k_bucket_size))
         > QPos(r, BlockLast(qc, cfg.q_bucket_size, inp.n))

AllPruned(r, shard) ==
    \A qc \in 1 .. NumBlocks(inp.n, cfg.q_bucket_size),
       kc \in 1 .. NumBlocks(inp.n, cfg.k_bucket_size) : Pruned(r, shard, qc, kc)

\* Flash Block Attention folded over all block pairs of one shard
FlashFold(accr, r, shard) ==
    [a \in 1 .. inp.n |->
        accr[a] \cup
        {shard.kv[b] : b \in {c \in 1 .. inp.n :
            /\ ~ Pruned(r, shard, BlockOf(a, cfg.q_bucket_size),
                        BlockOf(c, cfg.k_bucket_size))
            /\ shard.valid[c]
            /\ ~ (cfg.causal /\ KPos(shard, c) > QPos(r, a))}}]

Pred(r) == (r + W - 1) % W

\* a rank takes part in the exchange only when it computed something
PostsExchangeUnlessPruned(r, shard) == ~ AllPruned(r, shard)

\* a rank takes part in the exchange at every step
PostsExchange(r, shard) == TRUE

\* a rank receives from itself
RecvFromSelf(r) == r

\* the rank whose shard a rank receives: its predecessor
RecvFrom(r) == Pred(r)

\* the output tensor: one row per batch item, one entry per position
OutTensor(nrows, accr) == Tensor([i \in 1 .. nrows |-> accr])

OutShape(o, dim) == <<Len(o.rows), LastDim(o), dim>>

\* ---- forward
\* the sizes the all gather records are batch extents; a rank's rows here
\* are its batch extent times the n positions of each item
BatchExtents(rowcounts, n) == [k \in DOMAIN rowcounts |-> rowcounts[k] \div n]

Fail(r, e) ==
    /\ err' = [err EXCEPT ![r] = e]
    /\ pc' = [pc EXCEPT ![r] = "failed"]

\* forward with auto-sharding, up to the first all gather
AttnBegin(r) ==
    /\ pc[r] = "start"
    /\ AutoShard
    /\ LET x0     == inp.x[r]
           padded == pad_to_multiple(x0, cfg.ring_seq_size, PadToken)
           m      == MaskAfterPad(x0, inp.mask[r], cfg.ring_seq_size, padded.items[2])
       IN /\ seqLen' = [seqLen EXCEPT ![r] = LastDim(x0)]
          /\ xs' = [xs EXCEPT ![r] = padded.items[1]]
          /\ masks' = [masks EXCEPT ![r] = m]
          /\ gathers' = [gathers EXCEPT ![r].x = padded.items[1]]
    /\ pc' = [pc EXCEPT ![r] = "gather_x"]
    /\ UNCHANGED <<W, cfg, inp, batch_sizes, err, held, t, acc, seen, chan,
                   posts, idle, out>>

\* the all gather of x completes on rank r
AttnGatherX(r) ==
    /\ pc[r] = "gather_x"
    /\ \A q \in Ranks : pyexists(gathers[q].x)
    /\ LET g  == AllGatherBatch([q \in Ranks |-> gathers[q].x], W)
           gx == g.items[1]
       IN /\ batch_sizes' = [batch_sizes EXCEPT ![r] = BatchExtents(g.items[2], inp.n)]
          /\ IF pyexists(masks[r])
               THEN IF masks[r].tag # "tensor"
                      THEN /\ Fail(r, "AttributeError: all_gather of a tuple")
                           /\ xs' = [xs EXCEPT ![r] = gx]
                           /\ UNCHANGED <<masks, gathers>>
                      ELSE /\ gathers' = [gathers EXCEPT ![r].mask = masks[r]]
                           /\ pc' = [pc EXCEPT ![r] = "gather_mask"]
                           /\ xs' = [xs EXCEPT ![r] = gx]
                           /\ UNCHANGED <<masks, err>>
               ELSE LET res == SplitStage(gx, masks[r], cfg.ring_seq_size, W, r) IN
                    /\ err' = [err EXCEPT ![r] = res.err]
                    /\ pc' = [pc EXCEPT ![r] = IF res.err = "" THEN "project" ELSE "failed"]
                    /\ xs' = [xs EXCEPT ![r] = res.x]
                    /\ masks' = [masks EXCEPT ![r] = res.mask]
                    /\ UNCHANGED gathers
    /\ UNCHANGED <<W, cfg, inp, seqLen, held, t, acc, seen, chan, posts,
                   idle, out>>

\* the all gather of the mask completes on rank r
AttnGatherMask(r) ==
    /\ pc[r] = "gather_mask"
    /\ \A q \in Ranks : pyexists(gathers[q].mask)
    /\ LET g   == AllGatherBatch([q \in Ranks |-> gathers[q].mask], W)
           res == SplitStage(xs[r], g, cfg.ring_seq_size, W, r)
       IN /\ err' = [err EXCEPT ![r] = res.err]
          /\ pc' = [pc EXCEPT ![r] = IF res.err = "" THEN "project" ELSE "failed"]
          /\ xs' = [xs EXCEPT ![r] = res.x]
          /\ masks' = [masks EXCEPT ![r] = res.mask]
    /\ UNCHANGED <<W, cfg, inp, batch_sizes, seqLen, gathers, held, t, acc, seen,
                   chan, posts, idle, out>>

\* to_qkv and the dispatch: on one worker default_attention and the rest
\* of forward; on several the start of ring_flash_attn
Project(r) ==
    /\ \/ pc[r] = "project"
       \/ pc[r] = "start" /\ ~ AutoShard
    /\ seqLen' = [seqLen EXCEPT ![r] = IF pc[r] = "start" THEN LastDim(xs[r]) ELSE @]
    /\ IF ~ ToQkvOK(LastDim(xs[r]), cfg.dim)
         THEN /\ Fail(r, "RuntimeError: to_qkv shape")
              /\ UNCHANGED <<held, acc, out>>
       ELSE IF ~ is_distributed(W)
         THEN /\ out' = [out EXCEPT ![r] =
                    OutTensor(Len(xs[r].rows) \div inp.n,
                              default_attention(OwnShard(r).kv, masks[r], cfg.causal))]
              /\ pc' = [pc EXCEPT ![r] = "done"]
              /\ UNCHANGED <<err, held, acc>>
       ELSE /\ held' = [held EXCEPT ![r] = OwnShard(r)]
            /\ acc' = [acc EXCEPT ![r] = [a \in 1 .. inp.n |-> {}]]
            /\ pc' = [pc EXCEPT ![r] = "ring"]
            /\ UNCHANGED <<err, out>>
    /\ UNCHANGED <<W, cfg, inp, xs, masks, batch_sizes, gathers, t, seen, chan,
                   posts, idle>>

\* one ring step up to the exchange: fold the held shard into the
\* accumulator, then post the exchange; without the ring the only step
RingFold(r) ==
    /\ pc[r] = "ring"
    /\ acc' = [acc EXCEPT ![r] = FlashFold(acc[r], r, held[r])]
    /\ seen' = [seen EXCEPT ![r] = Append(@, held[r].origin)]
    /\ idle' = [idle EXCEPT ![r] = IF AllPruned(r, held[r]) THEN @ + 1 ELSE @]
    /\ IF RingOn
         THEN /\ pc' = [pc EXCEPT ![r] = "wait"]
              /\ IF PostsExchange(r, held[r])
                   THEN /\ chan' = [chan EXCEPT ![r] = held[r]]
                        /\ posts' = [posts EXCEPT ![r] = @ + 1]
                   ELSE UNCHANGED <<chan, posts>>
         ELSE /\ pc' = [pc EXCEPT ![r] = "combine"]
              /\ UNCHANGED <<chan, posts>>
    /\ UNCHANGED <<W, cfg, inp, xs, masks, batch_sizes, seqLen, gathers, err, held,
                   t, out>>

\* the Ring Transport exchange is a barrier: it completes when every rank
\* has posted its shard for the step; every rank then holds the shard of
\* the rank it receives from and advances its step counter
RingExchange ==
    /\ RingOn
    /\ \A r \in Ranks : pc[r] = "wait" /\ chan[r] # NoShard
    /\ held' = [r \in Ranks |-> chan[RecvFrom(r)]]
    /\ chan' = [r \in Ranks |-> NoShard]
    /\ t' = [r \in Ranks |-> t[r] + 1]
    /\ pc' = [r \in Ranks |-> IF t[r] + 1 = W THEN "combine" ELSE "ring"]
    /\ UNCHANGED <<W, cfg, inp, xs, masks, batch_sizes, seqLen, gathers, err, acc,
                   seen, posts, idle, out>>

\* combine heads and to_out; with auto-sharding the contribution of the
\* output to the all gather over the sequence, without it the return
Combine(r) ==
    /\ pc[r] = "combine"
    /\ LET o == OutTensor(Len(xs[r].rows) \div inp.n, acc[r]) IN
       IF AutoShard
         THEN /\ gathers' = [gathers EXCEPT ![r].logits = o]
              /\ pc' = [pc EXCEPT ![r] = "gather_out"]
              /\ UNCHANGED out
         ELSE /\ out' = [out EXCEPT ![r] = o]
              /\ pc' = [pc EXCEPT ![r] = "done"]
              /\ UNCHANGED gathers
    /\ UNCHANGED <<W, cfg, inp, xs, masks, batch_sizes, seqLen, err, held, t, acc,
                   seen, chan, posts, idle>>

\* sharded_seq_to_sharded_batch, out[:, :seq_len] and the return
AttnUnshard(r) ==
    /\ pc[r] = "gather_out"
    /\ \A q \in Ranks : pyexists(gathers[q].logits)
    /\ LET res == sharded_seq_to_sharded_batch([q \in Ranks |-> gathers[q].logits],
                                               batch_sizes[r], W, r)
       IN out' = [out EXCEPT ![r] = Truncate(res.items[1], seqLen[r])]
    /\ pc' = [pc EXCEPT ![r] = "done"]
    /\ UNCHANGED <<W, cfg, inp, xs, masks, batch_sizes, seqLen, gathers, err, held,
                   t, acc, seen, chan, posts, idle>>

\* ---- the calls explored
ValidCfgs ==
    {c \in [ring_attn : BOOLEAN, auto_shard_seq : BOOLEAN, causal : BOOLEAN,
            ring_seq_size : 1 .. MaxS, q_bucket_size : 1 .. MaxS,
            k_bucket_size : 1 .. MaxS, dim : 1 .. MaxDim] :
        RingAttentionInit([ring_seq_size  |-> c.ring_seq_size,
                           q_bucket_size  |-> c.q_bucket_size,
                           k_bucket_size  |-> c.k_bucket_size,
                           ring_attn      |-> c.ring_attn,
                           auto_shard_seq |-> Some(c.auto_shard_seq)]).state = "built"}

\* x of shape (b, n, dim), the batch and sequence axes flattened into rows
InputX(r, b, n, dim) == TokenIds(r, b * n, dim)

\* a mask of shape (b, n) whose rows all carry the validity gm of the
\* rank's positions
InputMask(r, b, n, gm) ==
    IF gm = None THEN PyNone
    ELSE Tensor([i \in 1 .. b |-> [p \in 1 .. n |-> gm[1][r * n + p]]])

\* the perturbations tried: none, one position, or every position from
\* some position on
Perturbations(len) ==
    {{}} \cup {{g} : g \in 1 .. len} \cup {g .. len : g \in 1 .. len}

\* With auto-sharding the calls vary the feature size and the first rank's
\* batch extent, with buckets of the shard size; without it they vary the
\* buckets (up to the local length: a larger bucket is one block too), the
\* mask and the perturbed positions, with ring_seq_size the larger bucket.
InitAttn ==
    /\ W \in 1 .. MaxW
    /\ cfg \in ValidCfgs
    /\ \E n \in 1 .. MaxN, b0 \in 1 .. MaxB,
          gm \in Optional([1 .. MaxN -> BOOLEAN]), pe \in Perturbations(MaxN) :
          /\ W * n <= MaxN
          /\ gm # None => \A g \in 1 .. MaxN : g > W * n => gm[1][g]
          /\ pe \in Perturbations(W * n)
          /\ IF cfg.auto_shard_seq
               THEN /\ pe = {}
                    /\ gm # None => \A g \in 1 .. MaxN : gm[1][g]
                    /\ cfg.q_bucket_size = cfg.ring_seq_size
                    /\ cfg.k_bucket_size = cfg.ring_seq_size
               ELSE /\ cfg.dim = 1
                    /\ b0 = 1
                    /\ cfg.ring_seq_size >= cfg.q_bucket_size
                    /\ cfg.ring_seq_size >= cfg.k_bucket_size
                    /\ cfg.ring_seq_size \in {cfg.q_bucket_size, cfg.k_bucket_size}
                    /\ cfg.q_bucket_size <= n /\ cfg.k_bucket_size <= n
          /\ inp = [n    |-> n,
                    x    |-> [r \in Ranks |-> InputX(r, IF r = 0 THEN b0 ELSE 1, n, cfg.dim)],
                    mask |-> [r \in Ranks |-> InputMask(r, IF r = 0 THEN b0 ELSE 1, n, gm)],
                    pert |-> pe]
    /\ pc = [r \in Ranks |-> "start"]
    /\ xs = inp.x
    /\ masks = inp.mask
    /\ batch_sizes = [r \in Ranks |-> <<>>]
    /\ seqLen = [r \in Ranks |-> 0]
    /\ gathers = [r \in Ranks |-> NoPost]
    /\ err = [r \in Ranks |-> ""]
    /\ held = [r \in Ranks |-> NoShard]
    /\ t = [r \in Ranks |-> 0]
    /\ acc = [r \in Ranks |-> <<>>]
    /\ seen = [r \in Ranks |-> <<>>]
    /\ chan = [r \in Ranks |-> NoShard]
    /\ posts = [r \in Ranks |-> 0]
    /\ idle = [r \in Ranks |-> 0]
    /\ out = [r \in Ranks |-> PyNone]

Init == IdleInit /\ IdleShard /\ InitAttn

RankStep(r) ==
    \/ AttnBegin(r)
    \/ AttnGatherX(r)
    \/ AttnGatherMask(r)
    \/ Project(r)
    \/ RingFold(r)
    \/ Combine(r)
    \/ AttnUnshard(r)

Next ==
    \/ \E r \in Ranks : AttnBegin(r) /\ UNCHANGED <<varsInit, varsShard>>
    \/ \E r \in Ranks : AttnGatherX(r) /\ UNCHANGED <<varsInit, varsShard>>
    \/ \E r \in Ranks : AttnGatherMask(r) /\ UNCHANGED <<varsInit, varsShard>>
    \/ \E r \in Ranks : Project(r) /\ UNCHANGED <<varsInit, varsShard>>
    \/ \E r \in Ranks : RingFold(r) /\ UNCHANGED <<varsInit, varsShard>>
    \/ RingExchange /\ UNCHANGED <<varsInit, varsShard>>
    \/ \E r \in Ranks : Combine(r) /\ UNCHANGED <<varsInit, varsShard>>
    \/ \E r \in Ranks : AttnUnshard(r) /\ UNCHANGED <<varsInit, varsShard>>

Spec == Init /\ [][Next]_vars

\* every rank keeps running, and the transport completes an exchange that
\* every rank has posted
SpecFair ==
    /\ Spec
    /\ \A r \in 0 .. MaxW - 1 :
          WF_vars(r \in Ranks /\ RankStep(r) /\ UNCHANGED <<varsInit, varsShard>>)
    /\ WF_vars(RingExchange /\ UNCHANGED <<varsInit, varsShard>>)

\* --------------------------------------------- properties of the attention
Terminal(r) == pc[r] \in {"done", "failed"}

PastRing(r) == pc[r] \in {"combine", "gather_out", "done"}

InputBatch(r) == Len(inp.x[r].rows) \div inp.n

NoDuplicates(sq) == \A i, j \in 1 .. Len(sq) : i # j => sq[i] # sq[j]

\* C3: in the ring each rank holds, at its step t, the unchanged shard of
\* the rank t places before it (so the held shards of ranks at the same
\* step are a permutation of the original shards); no shard is folded
\* twice; and after W steps each rank has folded every rank's shard exactly
\* once.
C3_EveryShardOnce ==
    RingOn =>
      \A r \in Ranks :
        /\ pc[r] \in {"ring", "wait", "combine"}
             => held[r] = OwnShard((r + W - t[r]) % W)
        /\ pc[r] \in {"ring", "wait"} => t[r] < W /\ Len(seen[r]) <= W
        /\ NoDuplicates(seen[r])
        /\ PastRing(r)
             => /\ t[r] = W
                /\ Len(seen[r]) = W
                /\ {seen[r][i] : i \in 1 .. W} = Ranks

C3_Witness ==
    /\ RingOn /\ W > 2
    /\ \A r \in Ranks : pc[r] = "done" /\ Len(seen[r]) = W

\* the positions of the whole sequence after query a of rank r
AfterQuery(r, a) == {g \in 1 .. W * inp.n : g > r * inp.n + a}

\* C4: in a causal run without auto-sharding (one worker, the ring, or
\* each rank on its own), the output at a query position is the same in
\* two runs whose keys and values differ only at positions after it.
C4_CausalIgnoresFuture ==
    \A r \in Ranks :
        (cfg.causal /\ ~ AutoShard /\ pc[r] = "done")
        => \A a \in 1 .. inp.n :
              inp.pert \subseteq AfterQuery(r, a)
              => Run1(out[r].rows[1][a]) = Run2(out[r].rows[1][a])

C4_Witness ==
    /\ cfg.causal /\ ~ AutoShard /\ inp.pert # {} /\ inp.n >= 2
    /\ \E r \in Ranks : pc[r] = "done" /\ inp.pert \subseteq AfterQuery(r, 1)
                        /\ out[r].rows[1][2] # {}

\* C9 (as claimed): on one worker, a key position whose mask is False gets
\* no weight from a query that has some admissible key, and with causal
\* set neither does a key position after the query: both apply together.
AdmissibleKey(m, a, b) ==
    /\ pyexists(m) => m.rows[1][b]
    /\ cfg.causal => b <= a

C9_MaskAndCausalTogether ==
    (~ is_distributed(W) /\ pc[0] = "done")
    => \A a, b \in 1 .. inp.n :
          ((\E c \in 1 .. inp.n : AdmissibleKey(inp.mask[0], a, c))
             /\ ~ AdmissibleKey(inp.mask[0], a, b))
          => Token(b) \notin out[0].rows[1][a]

\* C6 (as claimed): with auto-sharding in a distributed run, forward
\* returns on every rank an output with the batch extent and the sequence
\* length of that rank's input.
C6_OutputShapeIsInputShape ==
    \A r \in Ranks :
        (AutoShard /\ Terminal(r))
        => (pc[r] = "done"
            /\ OutShape(out[r], cfg.dim) = <<InputBatch(r), inp.n, cfg.dim>>)

\* C2 (as claimed): with auto-sharding and the ring, for a sequence whose
\* length is a multiple of ring_seq_size * W and no mask, forward returns
\* on every rank, for every query position, the contributions the
\* single-device attention over that rank's whole sequence gives.
Reference(r) ==
    OutTensor(InputBatch(r),
              default_attention([b \in 1 .. inp.n |-> Token(b)], PyNone, cfg.causal))

C2_RingEqualsFallback ==
    \A r \in Ranks :
        (AutoShard /\ RingOn /\ inp.n % (cfg.ring_seq_size * W) = 0
           /\ ~ pyexists(inp.mask[r]) /\ Terminal(r))
        => (pc[r] = "done" /\ out[r] = Reference(r))

\* C10: in a ring run every rank posts one exchange per step, pruned steps
\* included, and when every rank keeps running all ranks leave the ring
\* with step counter W, having posted W exchanges.
RingStarted == RingOn /\ \E r \in Ranks : pc[r] = "ring"

RingFinished == \A r \in Ranks : PastRing(r) /\ t[r] = W /\ posts[r] = W

C10_RingTerminates == RingStarted ~> RingFinished

C10_Witness ==
    /\ RingOn /\ cfg.causal
    /\ \A r \in Ranks : pc[r] = "done" /\ posts[r] = W
    /\ \E r \in Ranks : idle[r] > 0

\* -------------------------------------------- properties of construction
EffectiveAutoShard(a) ==
    IF a.auto_shard_seq = None THEN a.ring_attn ELSE a.auto_shard_seq[1]

BadAttentionConfig(a) ==
    \/ a.ring_seq_size % a.q_bucket_size # 0
    \/ a.ring_seq_size % a.k_bucket_size # 0
    \/ (EffectiveAutoShard(a) /\ ~ a.ring_attn)

\* C7: constructing the attention module raises exactly when ring_seq_size
\* is not divisible by q_bucket_size or by k_bucket_size, or auto-sharding
\* (by default the value of ring_attn) is on while ring attention is off;
\* no forward pass starts on a module whose construction raised.  The
\* attention layers a RingTransformer builds (auto_shard_seq = False)
\* raise under the same divisibility conditions.
C7_ConstructionFailsFast ==
    /\ (args.cls = "RingAttention" /\ obj.state # "new")
         => (obj.state = "raised" <=> BadAttentionConfig(args))
    /\ (args.cls = "RingAttention" /\ calls > 0) => ~ BadAttentionConfig(args)
    /\ (args.cls = "RingTransformer" /\ obj.state = "built" /\ args.depth > 0)
         => ~ BadAttentionConfig([args EXCEPT !.auto_shard_seq = Some(FALSE)])

C7_Witness ==
    /\ args.cls = "RingAttention" /\ obj.state = "raised"
    /\ args.ring_seq_size % args.q_bucket_size = 0
    /\ args.ring_seq_size % args.k_bucket_size = 0
    /\ args.auto_shard_seq = Some(TRUE) /\ ~ args.ring_attn

====
